---- MODULE Spec2Model ----
(***************************************************************************)
(* Model of the ingestion, retrieval and deletion paths of flask_api-main: *)
(*   vector_generator.py  VectorGenerator.process_document,                *)
(*                        VectorGenerator._get_or_create_collection        *)
(*   main.py              module initialisation, /extract, /generate,      *)
(*                        /delete_chunks                                   *)
(*   search_context.py    ContextRetriever.search, _get_expanded_queries   *)
(*   delete_chunks.py     ChunkDeleter.delete_by_file_ids                  *)
(* The Qdrant collection is the shared state; the PDF parser, the text     *)
(* splitter, the embedding service and the language model are external     *)
(* collaborators whose answers are drawn from small sets.                  *)
(***************************************************************************)
EXTENDS Integers, Sequences, FiniteSets, TLC

\* ------------------------------------------------------------------ bounds
MaxCalls == 2                       \* /extract requests issued in one run
Procs == {"p1", "p2"}               \* concurrent request handlers
Files == {"f1", "f2"}
Users == {"u1", "u2"}

None == "None"                      \* Python None in a string-valued field
NoIndex == -1                       \* Python None in the chunk_index field

\* ------------------------------------------------------- documents and text
Separator == "\n\n"
Whitespace == {" ", Separator}
BadPage == "%bad%"                  \* bytes pdfplumber cannot parse

\* A document is the sequence of its pages' extract_text() results:
\* "" is a page with no text, " " a page of blanks, "a"/"b" a window of text.
Docs ==
  { <<>>, <<" ">>, <<"", "a">>, <<"a", " ", "b">>, <<BadPage>> }

ExtractFails(doc) == \E i \in 1..Len(doc) : doc[i] = BadPage

RECURSIVE JoinPages(_)
JoinPages(pages) ==
  IF pages = <<>> THEN <<>>
  ELSE IF Len(pages) = 1 THEN pages
  ELSE <<Head(pages), Separator>> \o JoinPages(Tail(pages))

\* full_text keeps the pages whose text is truthy, joined by "\n\n"
ExtractText(doc) == JoinPages(SelectSeq(doc, LAMBDA pg : pg # ""))

\* not text_content or not text_content.strip()
IsBlank(text) == text = <<>> \/ \A i \in 1..Len(text) : text[i] \in Whitespace

\* RecursiveCharacterTextSplitter.split_text: the non-blank pieces between
\* separators, in source order (each piece is one window)
SplitText(text) == SelectSeq(text, LAMBDA t : t \notin Whitespace)

\* what the splitter can hand back: its windows, or no chunk at all
SplitResults(text) == {SplitText(text), <<>>}

\* embed_documents / embed_query: the vector of a text
Embedding(t) == <<"vec", t>>
EmbedDocuments(chunks) == [i \in 1..Len(chunks) |-> Embedding(chunks[i])]

\* ------------------------------------------------------------------ state
VARIABLES
  store,      \* the collection: point id -> [payload, vector]
  req,        \* per handler: position, arguments and locals of /extract
  ncalls,     \* requests issued so far
  sr,         \* position, arguments and locals of ContextRetriever.search
  coll,       \* the collection itself: whether it exists, its vector size,
              \* the payload fields it has a keyword index on
  startup,    \* per process: position in the module initialisation of
              \* main.py and in _get_or_create_collection, the service made
  dl          \* position, arguments and effects of /delete_chunks and of
              \* ChunkDeleter.delete_by_file_ids

vars == <<store, req, ncalls, sr, coll, startup, dl>>

EMBEDDING_DIM == 1024
LegacyDim == 768                    \* the size of a collection of an older model
PayloadIndexes == {"user_id", "file_id"}

NoCollection == [exists |-> FALSE, size |-> 0, indexes |-> {}]
NewCollection == [exists |-> TRUE, size |-> EMBEDDING_DIM, indexes |-> {}]
ReadyCollection ==
  [exists |-> TRUE, size |-> EMBEDDING_DIM, indexes |-> PayloadIndexes]

\* again: the collection was complete when the process began its startup
Importing ==
  [pc |-> "import", depth |-> 0, again |-> FALSE, error |-> "",
   vector_generator |-> "None"]

\* the module is initialised and vector_generator is set
Serving == [Importing EXCEPT !.pc = "ready", !.vector_generator = "VectorGenerator"]

\* prev/prevWrites: outcome and written ids of the call this handler made
\* just before with the same arguments ("" when the call is not a repeat)
Idle ==
  [pc |-> "idle", file_id |-> "", user_id |-> "", original_filename |-> "",
   doc |-> <<>>, text_content |-> <<>>, chunks |-> <<>>, embeddings |-> <<>>,
   result |-> "", outcome |-> "", response |-> 0,
   calls |-> {}, writes |-> {}, prev |-> "", prevWrites |-> {}]

\* kept: the hits the returned entries were built from, in order
\* llm: how the expansion call went; expanded_type: the Python type of what
\* _get_expanded_queries returned, expanded_queries what iterating it yields
\* searched: the queries embedded and searched so far, in order
\* failure: the store or embedding call that raised inside search
\* raised: search let an exception out to /generate
\* context, files_used, response: what /generate made of the result
SearchIdle ==
  [pc |-> "idle", query |-> <<>>, user_id |-> "", file_ids |-> <<>>,
   llm |-> "", expanded_type |-> "", expanded_queries |-> <<>>,
   qi |-> 0, searched |-> <<>>, all_hits |-> <<>>,
   page |-> <<>>, kept |-> <<>>, result |-> <<>>, calls |-> {},
   failure |-> "", raised |-> FALSE,
   context |-> <<>>, files_used |-> {}, response |-> 0]

\* file_ids: the list delete_by_file_ids was entered with
\* calls: the store calls issued; removed: the (file_id, user_id) of the
\* points the delete took out of the store
\* result: how delete_by_file_ids ended; response: what /delete_chunks answered
DeleteIdle ==
  [pc |-> "idle", route |-> FALSE, file_ids |-> <<>>, calls |-> {},
   removed |-> {}, result |-> "", response |-> 0]

Init ==
  /\ store = <<>>
  /\ req = [p \in Procs |-> Idle]
  /\ ncalls = 0
  /\ sr = SearchIdle
  /\ coll = ReadyCollection
  /\ startup = [p \in Procs |-> Serving]
  /\ dl = DeleteIdle

\* ------------------------------------------------------------ store calls
Ids(s) == DOMAIN s

ScrollMatch_KeysSwapped(s, f, u) ==
  {i \in Ids(s) : s[i].payload.file_id = u /\ s[i].payload.user_id = f}

\* scroll/search/delete filter: file_id == f AND user_id == u
ScrollMatch(s, f, u) ==
  {i \in Ids(s) : s[i].payload.file_id = f /\ s[i].payload.user_id = u}

\* upsert: a point replaces the stored point of the same id, else is added
Upserted(s, pts) ==
  [i \in Ids(s) \cup DOMAIN pts |-> IF i \in DOMAIN pts THEN pts[i] ELSE s[i]]

\* str(uuid.uuid4()) for each point: n ids no stored point has
RECURSIVE FreshFrom(_, _, _)
FreshFrom(used, i, n) ==
  IF n = 0 THEN <<>>
  ELSE IF i \in used THEN FreshFrom(used, i + 1, n)
  ELSE <<i>> \o FreshFrom(used, i + 1, n - 1)

Uuid4_FromOne(s, n) == [k \in 1..n |-> k]

Uuid4_FromLast(s, n) == [k \in 1..n |-> Cardinality(Ids(s)) + k - 1]

Uuid4(s, n) == FreshFrom(Ids(s), 1, n)

PointsToInsert_IndexFromOne(r, ids) ==
  [id \in {ids[k] : k \in 1..Len(r.chunks)} |->
     LET k == CHOOSE k \in 1..Len(r.chunks) : ids[k] = id IN
     [payload |-> [file_id |-> r.file_id, user_id |-> r.user_id,
                   original_filename |-> r.original_filename,
                   chunk_index |-> k,
                   text |-> r.chunks[k]],
      vector |-> r.embeddings[k]]]

\* points_to_insert: one point per chunk, enumerate(chunks) from 0
PointsToInsert(r, ids) ==
  [id \in {ids[k] : k \in 1..Len(r.chunks)} |->
     LET k == CHOOSE k \in 1..Len(r.chunks) : ids[k] = id IN
     [payload |-> [file_id |-> r.file_id, user_id |-> r.user_id,
                   original_filename |-> r.original_filename,
                   chunk_index |-> k - 1,
                   text |-> r.chunks[k]],
      vector |-> r.embeddings[k]]]

Restrict(f, S) == [x \in S |-> f[x]]

\* ------------------------------------------------- /extract, process_document
Set(p, r) == req' = [req EXCEPT ![p] = r]

\* the locals of process_document die when it returns or raises
Finish(r, res, how, status) ==
  [r EXCEPT !.pc = "done", !.result = res, !.outcome = how, !.response = status,
            !.text_content = <<>>, !.chunks = <<>>, !.embeddings = <<>>]

\* process_document returned None; /extract answers 202
Returned(r, how) == Finish(r, "None", how, 202)

\* process_document raised; /extract answers 500
Raised(r, how) == Finish(r, "raise", how, 500)

Request_NoServiceCheck(p, f, u, d) ==
  /\ startup[p].pc \in {"ready", "failed"}
  /\ req[p].pc \in {"idle", "done"}
  /\ ncalls < MaxCalls
  /\ ncalls' = ncalls + 1
  /\ IF f = "" \/ u = ""
       THEN Set(p, [Idle EXCEPT !.pc = "done", !.response = 400])
       ELSE Set(p, [Idle EXCEPT !.pc = "scroll", !.file_id = f, !.user_id = u,
                                !.original_filename = "doc.pdf", !.doc = d])
  /\ UNCHANGED <<store, sr, coll, startup, dl>>

\* the process serves once its module is initialised; without a
\* vector_generator /extract answers 503
Request(p, f, u, d) ==
  /\ startup[p].pc \in {"ready", "failed"}
  /\ req[p].pc \in {"idle", "done"}
  /\ ncalls < MaxCalls
  /\ ncalls' = ncalls + 1
  /\ IF startup[p].vector_generator = "None"
       THEN Set(p, [Idle EXCEPT !.pc = "done", !.response = 503])
     ELSE IF f = "" \/ u = ""
       THEN Set(p, [Idle EXCEPT !.pc = "done", !.response = 400])
       ELSE Set(p, [Idle EXCEPT !.pc = "scroll", !.file_id = f, !.user_id = u,
                                !.original_filename = "doc.pdf", !.doc = d])
  /\ UNCHANGED <<store, sr, coll, startup, dl>>

\* the caller sends the request it has just been answered once more
Repeat(p) ==
  /\ req[p].pc = "done"
  /\ req[p].outcome # ""
  /\ ncalls < MaxCalls
  /\ ncalls' = ncalls + 1
  /\ Set(p, [Idle EXCEPT !.pc = "scroll", !.file_id = req[p].file_id,
                         !.user_id = req[p].user_id,
                         !.original_filename = req[p].original_filename,
                         !.doc = req[p].doc,
                         !.prev = req[p].outcome, !.prevWrites = req[p].writes])
  /\ UNCHANGED <<store, sr, coll, startup, dl>>

DupCheck(p) ==
  LET r == [req[p] EXCEPT !.calls = @ \cup {"scroll"}] IN
  /\ req[p].pc = "scroll"
  /\ coll.exists
  /\ IF ScrollMatch(store, r.file_id, r.user_id) # {}
       THEN Set(p, Returned(r, "SkippedDuplicate"))
       ELSE Set(p, [r EXCEPT !.pc = "extract"])
  /\ UNCHANGED <<store, ncalls, sr, coll, startup, dl>>

DupCheckFail(p) ==
  LET r == [req[p] EXCEPT !.calls = @ \cup {"scroll"}] IN
  /\ req[p].pc = "scroll"
  /\ Set(p, Raised(r, "StoreError"))
  /\ UNCHANGED <<store, ncalls, sr, coll, startup, dl>>

Extract(p) ==
  LET r == [req[p] EXCEPT !.calls = @ \cup {"extract"}]
      t == ExtractText(r.doc) IN
  /\ req[p].pc = "extract"
  /\ IF ExtractFails(r.doc) THEN Set(p, Raised(r, "ExtractionError"))
     ELSE IF IsBlank(t) THEN Set(p, Returned(r, "SkippedEmpty"))
     ELSE Set(p, [r EXCEPT !.pc = "split", !.text_content = t])
  /\ UNCHANGED <<store, ncalls, sr, coll, startup, dl>>

Split_NoEmptyCheck(p) ==
  LET r == [req[p] EXCEPT !.calls = @ \cup {"split"}] IN
  /\ req[p].pc = "split"
  /\ \E c \in SplitResults(r.text_content) :
       Set(p, [r EXCEPT !.pc = "embed", !.chunks = c])
  /\ UNCHANGED <<store, ncalls, sr, coll, startup, dl>>

Split(p) ==
  LET r == [req[p] EXCEPT !.calls = @ \cup {"split"}] IN
  /\ req[p].pc = "split"
  /\ \E c \in SplitResults(r.text_content) :
       IF c = <<>>
         THEN Set(p, Returned(r, "SkippedEmpty"))
         ELSE Set(p, [r EXCEPT !.pc = "embed", !.chunks = c])
  /\ UNCHANGED <<store, ncalls, sr, coll, startup, dl>>

Embed(p) ==
  LET r == [req[p] EXCEPT !.calls = @ \cup {"embed"}] IN
  /\ req[p].pc = "embed"
  /\ Set(p, [r EXCEPT !.pc = "upsert", !.embeddings = EmbedDocuments(r.chunks)])
  /\ UNCHANGED <<store, ncalls, sr, coll, startup, dl>>

EmbedFail_Swallowed(p) ==
  LET r == [req[p] EXCEPT !.calls = @ \cup {"embed"}] IN
  /\ req[p].pc = "embed"
  /\ Set(p, Returned(r, "EmbeddingError"))
  /\ UNCHANGED <<store, ncalls, sr, coll, startup, dl>>

EmbedFail(p) ==
  LET r == [req[p] EXCEPT !.calls = @ \cup {"embed"}] IN
  /\ req[p].pc = "embed"
  /\ Set(p, Raised(r, "EmbeddingError"))
  /\ UNCHANGED <<store, ncalls, sr, coll, startup, dl>>

Upsert(p) ==
  LET r == [req[p] EXCEPT !.calls = @ \cup {"upsert"}]
      pts == PointsToInsert(r, Uuid4(store, Len(r.chunks))) IN
  /\ req[p].pc = "upsert"
  /\ coll.exists /\ coll.size = EMBEDDING_DIM
  /\ IF DOMAIN pts = {}
       THEN /\ store' = store
            /\ Set(p, Returned(req[p], "Ingested"))
       ELSE /\ store' = Upserted(store, pts)
            /\ Set(p, Returned([r EXCEPT !.writes = DOMAIN pts], "Ingested"))
  /\ UNCHANGED <<ncalls, sr, coll, startup, dl>>

\* the store rejects the batch; any part of it may already be written
UpsertFail(p) ==
  LET r == [req[p] EXCEPT !.calls = @ \cup {"upsert"}]
      pts == PointsToInsert(r, Uuid4(store, Len(r.chunks))) IN
  /\ req[p].pc = "upsert"
  /\ DOMAIN pts # {}
  /\ \E W \in SUBSET (DOMAIN pts) :
       /\ W # {} => (coll.exists /\ coll.size = EMBEDDING_DIM)
       /\ store' = Upserted(store, Restrict(pts, W))
       /\ Set(p, Raised([r EXCEPT !.writes = W], "StoreError"))
  /\ UNCHANGED <<ncalls, sr, coll, startup, dl>>

Next ==
  \E p \in Procs :
    \/ \E f \in Files \cup {""}, u \in Users, d \in Docs : Request(p, f, u, d)
    \/ Repeat(p)
    \/ DupCheck(p)
    \/ DupCheckFail(p)
    \/ Extract(p)
    \/ Split(p)
    \/ Embed(p)
    \/ EmbedFail(p)
    \/ Upsert(p)
    \/ UpsertFail(p)

Spec == Init /\ [][Next]_vars

\* ===================================================== startup of a process
\* main.py builds the services when the module is imported: VectorGenerator's
\* constructor runs _get_or_create_collection, and any exception leaves
\* vector_generator None.
SetStartup(p, r) == startup' = [startup EXCEPT ![p] = r]

\* without QDRANT_URL no client and no service is made, and no call either
Startup(p) ==
  /\ startup[p].pc = "import"
  /\ \E configured \in BOOLEAN :
       IF configured
         THEN SetStartup(p, [startup[p] EXCEPT !.pc = "get",
                                               !.again = (coll = ReadyCollection)])
         ELSE SetStartup(p, [startup[p] EXCEPT !.pc = "failed",
                                               !.error = "no client"])
  /\ UNCHANGED <<store, req, ncalls, sr, coll, dl>>

\* get_collection: found, or the 404 that means it will be created
GetCollection(p) ==
  /\ startup[p].pc = "get"
  /\ SetStartup(p, [startup[p] EXCEPT
                      !.pc = IF coll.exists THEN "verify" ELSE "create"])
  /\ UNCHANGED <<store, req, ncalls, sr, coll, dl>>

\* recreate_collection drops the collection of that name, if any, and makes
\* an empty one of size EMBEDDING_DIM
RecreateCollection(p) ==
  /\ startup[p].pc = "create"
  /\ coll' = NewCollection
  /\ store' = <<>>
  /\ SetStartup(p, [startup[p] EXCEPT !.pc = "index_user"])
  /\ UNCHANGED <<req, ncalls, sr, dl>>

\* the second get_collection and the comparison of the vector size
VerifyCollection(p) ==
  /\ startup[p].pc = "verify"
  /\ coll.exists
  /\ SetStartup(p, [startup[p] EXCEPT
                      !.pc = IF coll.size # EMBEDDING_DIM THEN "delete"
                             ELSE "index_user"])
  /\ UNCHANGED <<store, req, ncalls, sr, coll, dl>>

\* delete_collection, then the recursive call
DeleteCollection(p) ==
  /\ startup[p].pc = "delete"
  /\ coll' = NoCollection
  /\ store' = <<>>
  /\ SetStartup(p, [startup[p] EXCEPT !.pc = "get", !.depth = @ + 1])
  /\ UNCHANGED <<req, ncalls, sr, dl>>

\* create_payload_index on user_id, then on file_id: a keyword index on a
\* field that has one already is left as it is; after the second the
\* constructor returns and vector_generator is set
CreatePayloadIndex(p) ==
  /\ startup[p].pc \in {"index_user", "index_file"}
  /\ coll.exists
  /\ coll' = [coll EXCEPT !.indexes = @ \cup {IF startup[p].pc = "index_user"
                                                THEN "user_id" ELSE "file_id"}]
  /\ IF startup[p].pc = "index_user"
       THEN SetStartup(p, [startup[p] EXCEPT !.pc = "index_file"])
       ELSE SetStartup(p, [startup[p] EXCEPT !.pc = "ready",
                                             !.vector_generator = "VectorGenerator"])
  /\ UNCHANGED <<store, req, ncalls, sr, dl>>

\* a store call of _get_or_create_collection raises (the collection is gone,
\* the store is unreachable): logged, re-raised, caught by main.py; a
\* recreate_collection that raises may have dropped the collection already
EnsureFail(p) ==
  /\ startup[p].pc \in {"get", "create", "verify", "delete",
                         "index_user", "index_file"}
  /\ SetStartup(p, [startup[p] EXCEPT !.pc = "failed", !.error = "store"])
  /\ \E dropped \in BOOLEAN :
       IF dropped /\ startup[p].pc = "create"
         THEN coll' = NoCollection /\ store' = <<>>
         ELSE UNCHANGED <<coll, store, dl>>
  /\ UNCHANGED <<req, ncalls, sr, dl>>

\* what a starting process can find: no collection, a collection of an older
\* embedding model, a collection without or with its indexes; a collection
\* that exists may hold a point
LegacyCollection ==
  [exists |-> TRUE, size |-> LegacyDim, indexes |-> PayloadIndexes]

StoredBefore ==
  << [payload |-> [file_id |-> "f2", user_id |-> "u2",
                   original_filename |-> "doc.pdf",
                   chunk_index |-> 0, text |-> "b"],
      vector |-> Embedding("b")] >>

StartupDocs == { <<"", "a">>, <<"a", " ", "b">> }

InitStartup ==
  /\ coll \in {NoCollection, LegacyCollection, NewCollection, ReadyCollection}
  /\ store \in (IF coll.exists THEN {<<>>, StoredBefore} ELSE {<<>>})
  /\ req = [p \in Procs |-> Idle]
  /\ ncalls = 0
  /\ sr = SearchIdle
  /\ startup = [p \in Procs |-> Importing]
  /\ dl = DeleteIdle

NextStartup ==
  \E p \in Procs :
    \/ Startup(p)
    \/ GetCollection(p)
    \/ RecreateCollection(p)
    \/ VerifyCollection(p)
    \/ DeleteCollection(p)
    \/ CreatePayloadIndex(p)
    \/ EnsureFail(p)
    \/ \E d \in StartupDocs : Request(p, "f1", "u1", d)
    \/ DupCheck(p)
    \/ DupCheckFail(p)
    \/ Extract(p)
    \/ Split(p)
    \/ Embed(p)
    \/ EmbedFail(p)
    \/ Upsert(p)
    \/ UpsertFail(p)

SpecStartup == InitStartup /\ [][NextStartup]_vars

\* ================================================================ retrieval
TOP_K_RESULTS == 3
SUMMARY_CHUNK_LIMIT == 30
MaxStored == 2                      \* points in the collection a search runs on

\* a query is its sequence of words
Lower(w) == IF w = "Summarize" THEN "summarize" ELSE w

SUMMARIZATION_KEYWORDS ==
  { <<"summarize">>, <<"summary">>, <<"overview">>, <<"gist">>,
    <<"main", "points">>, <<"key", "points">>, <<"in", "short">>,
    <<"in", "brief">>, <<"what", "is", "this", "about">>,
    <<"what's", "this", "about">>, <<"tell", "me", "about", "this", "file">>,
    <<"give", "me", "a", "summary">>, <<"can", "you", "summarize">> }

\* keyword in query.lower()
Contains(q, kw) ==
  \E o \in 0..(Len(q) - Len(kw)) :
    \A k \in 1..Len(kw) : Lower(q[o + k]) = kw[k]

IsSummaryRequest(q) == \E kw \in SUMMARIZATION_KEYWORDS : Contains(q, kw)

Queries == { <<"Summarize", "this">>, <<"safety", "limits">> }
AltQuery == <<"thermal", "limits">>
FileIdLists == { <<>>, <<"f1">>, <<"f2", "f1">> }
\* the collections searched hold points of either user in every combination,
\* so one caller meets every case the other would
Callers == {"u1"}

Range(f) == {f[x] : x \in DOMAIN f}

\* --- the language model's reply to the expansion prompt
\* the JSON arrays the model answers with: empty, with or without the query,
\* with a repeated entry
Arrays(q) ==
  { <<>>, <<q>>, <<AltQuery>>, <<q, AltQuery>>, <<AltQuery, AltQuery>> }

\* a Python str as the sequence of its pieces (iterating it yields them)
Chars(q) == [k \in 1..Len(q) |-> <<q[k]>>]

\* the JSON strings the model answers with: the query itself, another text
Strings(q) == { Chars(q), Chars(AltQuery) }

\* the keys of the JSON objects the model answers with
Keys(q) == { <<q>>, <<AltQuery>> }

\* a reply is fenced in ```json or bare; its text decodes to an array, a
\* string, an object, a number, or does not decode at all
Replies(q) ==
  [fenced : BOOLEAN, kind : {"array"}, items : Arrays(q)]
    \cup [fenced : BOOLEAN, kind : {"string"}, items : Strings(q)]
    \cup [fenced : BOOLEAN, kind : {"object"}, items : Keys(q)]
    \cup [fenced : BOOLEAN, kind : {"number", "invalid"}, items : {<<>>}]

\* query in expanded_queries, for a str: the query is a substring
Substring(q, chars) ==
  \E o \in 0..(Len(chars) - Len(q)) :
    \A k \in 1..Len(q) : chars[o + k] = <<q[k]>>

\* query in expanded_queries, by the type json.loads returned
QueryIn(q, reply) ==
  IF reply.kind = "string" THEN Substring(q, reply.items)
  ELSE q \in Range(reply.items)

PyType(kind) ==
  IF kind = "array" THEN "list" ELSE IF kind = "string" THEN "str" ELSE "dict"

\* _get_expanded_queries once the model has answered: the fence is stripped
\* and the text decoded; json.loads raises on text that is no JSON, the
\* membership test raises on a number, append raises on a str or a dict that
\* lacks the query (each caught: the query alone); a value that holds the
\* query is returned as it is, a list that lacks it gets it appended
ExpandedQueries(q, reply) ==
  IF reply.kind \in {"invalid", "number"} THEN [type |-> "list", items |-> <<q>>]
  ELSE IF QueryIn(q, reply)
    THEN [type |-> PyType(reply.kind), items |-> reply.items]
  ELSE IF reply.kind = "array"
    THEN [type |-> "list", items |-> Append(reply.items, q)]
  ELSE [type |-> "list", items |-> <<q>>]

\* --- the store's answers
\* query_filter: user_id == u AND file_id in fids
FilterMatch_AnyUser(s, u, fids) ==
  {i \in Ids(s) : s[i].payload.file_id \in Range(fids)}

FilterMatch(s, u, fids) ==
  {i \in Ids(s) : s[i].payload.user_id = u /\ s[i].payload.file_id \in Range(fids)}

Hit(s, i) == [id |-> i, payload |-> s[i].payload]

Min(a, b) == IF a < b THEN a ELSE b

\* a page of at most limit of the matching points, in any order
Pages(s, match, limit) ==
  LET n == Min(limit, Cardinality(match)) IN
  { [k \in 1..n |-> Hit(s, f[k])] :
      f \in {g \in [1..n -> match] : \A a, b \in 1..n : g[a] = g[b] => a = b} }

\* --- summarization mode
\* k.get('chunk_index', 0)
SortKey(payload) ==
  IF payload.chunk_index = NoIndex THEN 0 ELSE payload.chunk_index

\* insertion of x after the elements whose key is not greater (stable)
RECURSIVE Insert(_, _)
Insert(x, sorted) ==
  IF sorted = <<>> THEN <<x>>
  ELSE IF SortKey(Head(sorted)) <= SortKey(x)
    THEN <<Head(sorted)>> \o Insert(x, Tail(sorted))
    ELSE <<x>> \o sorted

RECURSIVE SortedFrom(_, _)
SortedFrom(payloads, acc) ==
  IF payloads = <<>> THEN acc
  ELSE SortedFrom(Tail(payloads), Insert(Head(payloads), acc))

SortedByChunkIndex_Unsorted(payloads) == payloads

\* sorted(payloads, key=lambda k: k.get('chunk_index', 0))
SortedByChunkIndex(payloads) == SortedFrom(payloads, <<>>)

\* --- semantic mode
Truthy(t) == t # "" /\ t # None

ChunkKey_ById(hit) == <<hit.payload.file_id, hit.id>>

\* chunk_key = (file_id, chunk_index)
ChunkKey(hit) == <<hit.payload.file_id, hit.payload.chunk_index>>

HitUsable_NoTextCheck(hit) ==
  hit.payload.file_id # None /\ hit.payload.chunk_index # NoIndex

\* all(k is not None for k in chunk_key) and hit.payload.get("text")
HitUsable(hit) ==
  /\ hit.payload.file_id # None /\ hit.payload.chunk_index # NoIndex
  /\ Truthy(hit.payload.text)

RECURSIVE UniqueHits_NewestFirst(_, _)
UniqueHits_NewestFirst(hits, kept) ==
  IF hits = <<>> THEN kept
  ELSE LET h == Head(hits) IN
       IF HitUsable(h) /\ ChunkKey(h) \notin {ChunkKey(kept[k]) : k \in 1..Len(kept)}
         THEN UniqueHits_NewestFirst(Tail(hits), <<h>> \o kept)
         ELSE UniqueHits_NewestFirst(Tail(hits), kept)

\* the loop over all_hits: a hit is kept when it is usable and its key is new
RECURSIVE UniqueHits(_, _)
UniqueHits(hits, kept) ==
  IF hits = <<>> THEN kept
  ELSE LET h == Head(hits) IN
       IF HitUsable(h) /\ ChunkKey(h) \notin {ChunkKey(kept[k]) : k \in 1..Len(kept)}
         THEN UniqueHits(Tail(hits), Append(kept, h))
         ELSE UniqueHits(Tail(hits), kept)

Entry(hit) ==
  [text |-> hit.payload.text, original_filename |-> hit.payload.original_filename]

\* --- ContextRetriever.search
SearchRequest_NoEmptyCheck(q, u, fids) ==
  /\ sr.pc = "idle"
  /\ sr' = [SearchIdle EXCEPT
              !.pc = IF IsSummaryRequest(q) THEN "scroll" ELSE "expand",
              !.query = q, !.user_id = u, !.file_ids = fids]
  /\ UNCHANGED <<store, req, ncalls, coll, startup, dl>>

\* if not self.qdrant or not file_ids: return []
SearchRequest(q, u, fids) ==
  /\ sr.pc = "idle"
  /\ IF fids = <<>>
       THEN sr' = [SearchIdle EXCEPT !.pc = "done", !.query = q, !.user_id = u]
       ELSE sr' = [SearchIdle EXCEPT
                     !.pc = IF IsSummaryRequest(q) THEN "scroll" ELSE "expand",
                     !.query = q, !.user_id = u, !.file_ids = fids]
  /\ UNCHANGED <<store, req, ncalls, coll, startup, dl>>

\* the scroll answers with one of pages; no page: []; else the payloads sorted
SummaryScrollOf(pages) ==
  /\ sr.pc = "scroll"
  /\ \E pg \in pages :
       sr' = [sr EXCEPT !.pc = "done", !.calls = @ \cup {"scroll"},
                        !.page = pg,
                        !.result = SortedByChunkIndex(
                                     [k \in 1..Len(pg) |-> pg[k].payload])]
  /\ UNCHANGED <<store, req, ncalls, coll, startup, dl>>

SummaryScroll ==
  SummaryScrollOf(Pages(store, FilterMatch(store, sr.user_id, sr.file_ids),
                        SUMMARY_CHUNK_LIMIT))

\* the store call raises; search logs and returns []
SummaryScrollFail ==
  /\ sr.pc = "scroll"
  /\ sr' = [sr EXCEPT !.pc = "done", !.calls = @ \cup {"scroll"},
                      !.failure = "scroll", !.result = <<>>]
  /\ UNCHANGED <<store, req, ncalls, coll, startup, dl>>

\* db_client is None: no call, the query alone
ExpandNoClient ==
  /\ sr.pc = "expand"
  /\ sr' = [sr EXCEPT !.pc = "fanout", !.qi = 1, !.llm = "absent",
                      !.expanded_type = "list", !.expanded_queries = <<sr.query>>]
  /\ UNCHANGED <<store, req, ncalls, coll, startup, dl>>

\* invoke raises: the query alone
ExpandFail ==
  /\ sr.pc = "expand"
  /\ sr' = [sr EXCEPT !.pc = "fanout", !.qi = 1, !.calls = @ \cup {"llm"},
                      !.llm = "failed",
                      !.expanded_type = "list", !.expanded_queries = <<sr.query>>]
  /\ UNCHANGED <<store, req, ncalls, coll, startup, dl>>

Expand ==
  /\ sr.pc = "expand"
  /\ \E reply \in Replies(sr.query) :
       LET e == ExpandedQueries(sr.query, reply) IN
       sr' = [sr EXCEPT !.pc = "fanout", !.qi = 1, !.calls = @ \cup {"llm"},
                        !.llm = IF reply.kind = "array" THEN "array"
                                ELSE "not_array",
                        !.expanded_type = e.type, !.expanded_queries = e.items]
  /\ UNCHANGED <<store, req, ncalls, coll, startup, dl>>

\* one turn of the loop over expanded_queries: embed_query, then search; after
\* the last turn the hits are deduplicated and returned
FanOut ==
  /\ sr.pc = "fanout"
  /\ \E pg \in Pages(store, FilterMatch(store, sr.user_id, sr.file_ids),
                    TOP_K_RESULTS) :
       LET hits == sr.all_hits \o pg
           r == [sr EXCEPT !.calls = @ \cup {"embed", "search"},
                           !.searched = Append(@, sr.expanded_queries[sr.qi]),
                           !.all_hits = hits, !.qi = @ + 1] IN
       IF sr.qi < Len(sr.expanded_queries)
         THEN sr' = r
         ELSE LET kept == UniqueHits(hits, <<>>) IN
              sr' = [r EXCEPT !.pc = "done", !.kept = kept,
                              !.result = [k \in 1..Len(kept) |-> Entry(kept[k])]]
  /\ UNCHANGED <<store, req, ncalls, coll, startup, dl>>

FanOutFail_Propagates ==
  /\ sr.pc = "fanout"
  /\ \E failing \in {"embed", "search"} :
       sr' = [sr EXCEPT !.pc = "done", !.failure = failing, !.raised = TRUE,
                        !.calls = @ \cup (IF failing = "embed" THEN {"embed"}
                                           ELSE {"embed", "search"})]
  /\ UNCHANGED <<store, req, ncalls, coll, startup, dl>>

\* embed_query or search raises; search logs and returns []
FanOutFail ==
  /\ sr.pc = "fanout"
  /\ \E failing \in {"embed", "search"} :
       sr' = [sr EXCEPT !.pc = "done", !.failure = failing, !.result = <<>>,
                        !.calls = @ \cup (IF failing = "embed" THEN {"embed"}
                                           ELSE {"embed", "search"})]
  /\ UNCHANGED <<store, req, ncalls, coll, startup, dl>>

\* --- /generate after search: the context and the files it names
ContextSeparator == "\n---\n"
FailedContext == "Failed to retrieve context from documents."

\* "\n---\n".join(context_texts)
RECURSIVE JoinContext(_)
JoinContext(texts) ==
  IF Len(texts) <= 1 THEN texts
  ELSE <<Head(texts), ContextSeparator>> \o JoinContext(Tail(texts))

\* chunk['text'] of a payload without text, or the join over a None, raises
ContextFails(chunks) == \E k \in 1..Len(chunks) : chunks[k].text = None

FilesUsed(chunks) ==
  {chunks[k].original_filename : k \in 1..Len(chunks)} \ {"", None}

\* search has returned: its locals die, /generate builds the context, calls
\* the chat model and answers 200, or 500 when the model call raises
Generate ==
  /\ sr.pc = "done"
  /\ \E status \in {200, 500} :
       LET fails == sr.raised \/ ContextFails(sr.result)
           r == [SearchIdle EXCEPT
                   !.pc = "answered", !.query = sr.query, !.user_id = sr.user_id,
                   !.file_ids = sr.file_ids, !.result = sr.result,
                   !.failure = sr.failure, !.raised = sr.raised,
                   !.calls = sr.calls \cup {"invoke"}, !.response = status] IN
       sr' = IF fails THEN [r EXCEPT !.context = <<FailedContext>>]
             ELSE [r EXCEPT
                     !.context = JoinContext([k \in 1..Len(sr.result) |->
                                                sr.result[k].text]),
                     !.files_used = FilesUsed(sr.result)]
  /\ UNCHANGED <<store, req, ncalls, coll, startup, dl>>

\* --- the collections a search can meet: points of any writer; a point is
\* well formed, or lacks its chunk_index, or has an empty or a missing text
PFiles == <<"f1", "f2">>
PUsers == <<"u1", "u2">>
PShapes ==
  << <<0, "a">>, <<0, "b">>, <<1, "a">>, <<1, "b">>,
     <<NoIndex, "a">>, <<0, "">>, <<0, None>> >>
NPayloads == Len(PFiles) * Len(PUsers) * Len(PShapes)

PayloadAt(k) ==
  LET j == k - 1
      shape == PShapes[(j \div 4) + 1] IN
  [file_id |-> PFiles[(j % 2) + 1],
   user_id |-> PUsers[((j \div 2) % 2) + 1],
   chunk_index |-> shape[1],
   text |-> shape[2],
   original_filename |-> "doc.pdf"]

InitSearch ==
  /\ \E n \in 0..MaxStored :
       \E c \in [1..n -> 1..NPayloads] :
         /\ \A a, b \in 1..n : a <= b => c[a] <= c[b]
         /\ store = [i \in 1..n |->
                       [payload |-> PayloadAt(c[i]),
                        vector |-> Embedding(PayloadAt(c[i]).text)]]
  /\ req = [p \in Procs |-> Idle]
  /\ ncalls = 0
  /\ sr = SearchIdle
  /\ coll = ReadyCollection
  /\ startup = [p \in Procs |-> Serving]
  /\ dl = DeleteIdle

NextSearch ==
  \/ \E q \in Queries, u \in Callers, fids \in FileIdLists : SearchRequest(q, u, fids)
  \/ SummaryScroll
  \/ SummaryScrollFail
  \/ ExpandNoClient
  \/ ExpandFail
  \/ Expand
  \/ FanOut
  \/ FanOutFail
  \/ Generate

SpecSearch == InitSearch /\ [][NextSearch]_vars

\* --- summaries of files with about SUMMARY_CHUNK_LIMIT chunks
MaxOver == 2                        \* stored chunks beyond SUMMARY_CHUNK_LIMIT

\* the subsets of S with k elements
RECURSIVE KSubsets(_, _)
KSubsets(S, k) ==
  IF k = 0 THEN {{}}
  ELSE UNION {{T \cup {x} : T \in KSubsets(S \ {x}, k - 1)} : x \in S}

\* the points of ids, in the order of their ids
InIdOrder(s, ids) ==
  LET seq == SelectSeq([i \in 1..Len(s) |-> i], LAMBDA i : i \in ids) IN
  [k \in 1..Len(seq) |-> Hit(s, seq[k])]

\* a page of at most limit of the matching points, whichever the store leaves
\* out, in the order of their ids
PagesInIdOrder_OneShort(s, match, limit) ==
  LET over == Cardinality(match) - Min(limit - 1, Cardinality(match)) IN
  {InIdOrder(s, match \ D) : D \in KSubsets(match, over)}

PagesInIdOrder(s, match, limit) ==
  LET over == Cardinality(match) - Min(limit, Cardinality(match)) IN
  {InIdOrder(s, match \ D) : D \in KSubsets(match, over)}

SummaryScrollInIdOrder ==
  SummaryScrollOf(PagesInIdOrder(store,
                                 FilterMatch(store, sr.user_id, sr.file_ids),
                                 SUMMARY_CHUNK_LIMIT))

\* the numbers of chunks a summarised file has: none, a few, about the limit
ChunkCounts ==
  {0, 5} \cup ((SUMMARY_CHUNK_LIMIT - 1)..(SUMMARY_CHUNK_LIMIT + MaxOver))

\* the file f1 of u1 stored with n chunks, the later chunks under the lower
\* ids, then the same file as another user stored it
FileOfChunks(n) ==
  [i \in 1..(n + 1) |->
     [payload |-> [file_id |-> "f1",
                   user_id |-> IF i <= n THEN "u1" ELSE "u2",
                   original_filename |-> "doc.pdf",
                   chunk_index |-> IF i <= n THEN n - i ELSE 0,
                   text |-> IF i % 2 = 0 THEN "a" ELSE "b"],
      vector |-> Embedding(IF i % 2 = 0 THEN "a" ELSE "b")]]

InitSummary ==
  /\ \E n \in ChunkCounts : store = FileOfChunks(n)
  /\ req = [p \in Procs |-> Idle]
  /\ ncalls = 0
  /\ sr = SearchIdle
  /\ coll = ReadyCollection
  /\ startup = [p \in Procs |-> Serving]
  /\ dl = DeleteIdle

NextSummary ==
  \/ \E u \in Users, fids \in FileIdLists :
       SearchRequest(<<"Summarize", "this">>, u, fids)
  \/ SummaryScrollInIdOrder
  \/ SummaryScrollFail
  \/ Generate

SpecSummary == InitSummary /\ [][NextSummary]_vars


\* ------------------------------------- /delete_chunks, delete_by_file_ids
\* points_selector: file_id in file_ids (MatchAny), whatever the user_id
DeleteMatch_FirstOnly(s, ids) ==
  {i \in Ids(s) : s[i].payload.file_id = ids[1]}

DeleteMatch(s, ids) ==
  {i \in Ids(s) : s[i].payload.file_id \in Range(ids)}

\* the lists delete_by_file_ids is given: one file, two files, a file that
\* was never stored
DeleteLists == { <<"f1">>, <<"f2">>, <<"f1", "f2">>, <<"f3">> }

\* the body of a POST /delete_chunks: JSON or not, and what its 'file_ids'
\* key holds: nothing, a string, a list
DeleteBodies ==
  { [json |-> FALSE, kind |-> "missing", items |-> <<>>],
    [json |-> TRUE, kind |-> "missing", items |-> <<>>],
    [json |-> TRUE, kind |-> "str", items |-> <<"f1">>],
    [json |-> TRUE, kind |-> "list", items |-> <<>>] }
  \cup {[json |-> TRUE, kind |-> "list", items |-> ids] : ids \in DeleteLists}

\* delete_vector_chunks: 503 without the service, 400 for a body that is not
\* JSON or whose file_ids is missing, empty or not a list
DeleteChunks(p, body) ==
  /\ startup[p].pc \in {"ready", "failed"}
  /\ dl.pc \in {"idle", "done"}
  /\ ncalls < MaxCalls
  /\ ncalls' = ncalls + 1
  /\ dl' = IF startup[p].vector_generator = "None"
             THEN [DeleteIdle EXCEPT !.pc = "done", !.route = TRUE, !.response = 503]
           ELSE IF ~body.json \/ body.kind # "list" \/ body.items = <<>>
             THEN [DeleteIdle EXCEPT !.pc = "done", !.route = TRUE, !.response = 400]
           ELSE [DeleteIdle EXCEPT !.pc = "delete_by_file_ids", !.route = TRUE,
                                   !.file_ids = body.items]
  /\ UNCHANGED <<store, req, sr, coll, startup>>

\* delete_by_file_ids entered by a caller other than the route, which may
\* hand it any list
DeleteByFileIdsCall(ids) ==
  /\ dl.pc \in {"idle", "done"}
  /\ ncalls < MaxCalls
  /\ ncalls' = ncalls + 1
  /\ dl' = [DeleteIdle EXCEPT !.pc = "delete_by_file_ids", !.file_ids = ids]
  /\ UNCHANGED <<store, req, sr, coll, startup>>

\* delete_by_file_ids: an empty list returns before any store call; else one
\* delete with the file_id filter, wait=True, and the route answers 202
DeleteByFileIds ==
  LET gone == DeleteMatch(store, dl.file_ids)
      status == IF dl.route THEN 202 ELSE 0 IN
  /\ dl.pc = "delete_by_file_ids"
  /\ IF dl.file_ids = <<>>
       THEN /\ dl' = [dl EXCEPT !.pc = "done", !.result = "None", !.response = status]
            /\ store' = store
       ELSE /\ coll.exists
            /\ store' = Restrict(store, Ids(store) \ gone)
            /\ dl' = [dl EXCEPT !.pc = "done", !.result = "None",
                                !.response = status, !.calls = {"delete"},
                                !.removed = {<<store[i].payload.file_id,
                                               store[i].payload.user_id>> : i \in gone}]
  /\ UNCHANGED <<req, ncalls, sr, coll, startup>>

\* the delete raises (logged, re-raised, the route answers 500); the store
\* may have taken out any part of the selection
DeleteFail ==
  LET status == IF dl.route THEN 500 ELSE 0 IN
  /\ dl.pc = "delete_by_file_ids"
  /\ dl.file_ids # <<>>
  /\ \E W \in SUBSET DeleteMatch(store, dl.file_ids) :
       /\ W # {} => coll.exists
       /\ store' = Restrict(store, Ids(store) \ W)
       /\ dl' = [dl EXCEPT !.pc = "done", !.result = "raise",
                           !.response = status, !.calls = {"delete"},
                           !.removed = {<<store[i].payload.file_id,
                                          store[i].payload.user_id>> : i \in W}]
  /\ UNCHANGED <<req, ncalls, sr, coll, startup>>

\* the first ingestion of the run, sent for a file of the list once the
\* delete has returned without error
RequestAfterDelete(p, f, u, d) ==
  /\ dl.pc = "done" /\ dl.result = "None" /\ dl.calls = {"delete"}
  /\ f \in Range(dl.file_ids)
  /\ \A q \in Procs : req[q].pc = "idle"
  /\ ncalls < MaxCalls
  /\ ncalls' = ncalls + 1
  /\ Set(p, [Idle EXCEPT !.pc = "scroll", !.file_id = f, !.user_id = u,
                         !.original_filename = "doc.pdf", !.doc = d,
                         !.prev = "Deleted"])
  /\ UNCHANGED <<store, sr, coll, startup, dl>>

\* what earlier ingestions left: two chunks of f1 for u1, one chunk of f1 for
\* u2, one chunk of f2 for u1
DeleteKeys == { <<"f1", "u1">>, <<"f1", "u2">>, <<"f2", "u1">> }

StoredForDelete ==
  LET pt(f, u, k, t) ==
        [payload |-> [file_id |-> f, user_id |-> u,
                      original_filename |-> "doc.pdf",
                      chunk_index |-> k, text |-> t],
         vector |-> Embedding(t)] IN
  << pt("f1", "u1", 0, "a"), pt("f1", "u1", 1, "b"),
     pt("f1", "u2", 0, "a"), pt("f2", "u1", 0, "b") >>

DeleteDocs == { <<" ">>, <<"a", " ", "b">> }

InitDelete ==
  /\ \E K \in SUBSET DeleteKeys :
       store = Restrict(StoredForDelete,
                        {i \in DOMAIN StoredForDelete :
                           <<StoredForDelete[i].payload.file_id,
                             StoredForDelete[i].payload.user_id>> \in K})
  /\ req = [p \in Procs |-> Idle]
  /\ ncalls = 0
  /\ sr = SearchIdle
  /\ coll = ReadyCollection
  /\ startup = [p \in Procs |-> Serving]
  /\ dl = DeleteIdle

NextDelete ==
  \/ \E p \in Procs, body \in DeleteBodies : DeleteChunks(p, body)
  \/ \E ids \in DeleteLists \cup {<<>>} : DeleteByFileIdsCall(ids)
  \/ DeleteByFileIds
  \/ DeleteFail
  \/ \E p \in Procs :
       \/ \E u \in Users, d \in DeleteDocs : Request(p, "f1", u, d)
       \/ \E f \in Files, u \in Users, d \in DeleteDocs : RequestAfterDelete(p, f, u, d)
       \/ DupCheck(p)
       \/ DupCheckFail(p)
       \/ Extract(p)
       \/ Split(p)
       \/ Embed(p)
       \/ EmbedFail(p)
       \/ Upsert(p)
       \/ UpsertFail(p)

SpecDelete == InitDelete /\ [][NextDelete]_vars


\* ------------------------------------------------------------ properties
Done(p) == req[p].pc = "done"

\* the stored points of (f, u), read off the payloads
KeyPoints(f, u) ==
  {i \in DOMAIN store : store[i].payload.file_id = f /\ store[i].payload.user_id = u}

\* the chunks the document of a request splits into
NominalChunks(d) == SplitText(ExtractText(d))

\* C1 (as stated): when a handler runs the same request twice in sequence and
\* neither call fails, the second call stops at the duplicate check (only the
\* scroll is issued, nothing is written) and the store holds exactly the
\* points the first call wrote.
C1_SecondCallStopsAtDuplicateCheck ==
  \A p \in Procs :
    (Done(p) /\ req[p].prev \in {"Ingested", "SkippedDuplicate", "SkippedEmpty"}
             /\ req[p].result = "None")
      => /\ req[p].outcome = "SkippedDuplicate"
         /\ req[p].calls = {"scroll"}
         /\ req[p].writes = {}

\* C1 (amended): when the first call stored its points, the second call stops
\* at the duplicate check, issues no extract, embed or upsert, writes nothing,
\* and the first call's points are still stored; with no other handler at
\* work they are all the store holds for (file_id, user_id).
C1_SecondCallAfterIngestedIsNoOp ==
  \A p \in Procs :
    (Done(p) /\ req[p].prev = "Ingested" /\ req[p].result = "None")
      => /\ req[p].outcome = "SkippedDuplicate"
         /\ req[p].calls = {"scroll"}
         /\ req[p].writes = {}
         /\ req[p].prevWrites # {}
         /\ req[p].prevWrites \subseteq KeyPoints(req[p].file_id, req[p].user_id)
         /\ (\A q \in Procs \ {p} : req[q].pc = "idle")
              => KeyPoints(req[p].file_id, req[p].user_id) = req[p].prevWrites

C1_Witness ==
  \E p \in Procs :
    /\ Done(p) /\ req[p].prev = "Ingested" /\ req[p].outcome = "SkippedDuplicate"
    /\ Cardinality(req[p].prevWrites) = 2
    /\ \A q \in Procs \ {p} : req[q].pc = "idle"

\* C2: no (file_id, user_id, chunk_index) is stored more than once.
C2_AtMostOneIngestionPerKey ==
  \A i, j \in DOMAIN store :
    (/\ store[i].payload.file_id = store[j].payload.file_id
     /\ store[i].payload.user_id = store[j].payload.user_id
     /\ store[i].payload.chunk_index = store[j].payload.chunk_index) => i = j

\* the points ids of store s carry chunk_index 0..n-1 once each, the point of
\* index i with the i-th chunk's text and the i-th embedding
CarryChunks(s, ids, chunks) ==
  /\ ids \subseteq DOMAIN s
  /\ \A k \in 1..Len(chunks) :
       \E i \in ids :
         /\ s[i].payload.chunk_index = k - 1
         /\ s[i].payload.text = chunks[k]
         /\ s[i].vector = Embedding(chunks[k])
         /\ \A j \in ids : s[j].payload.chunk_index = k - 1 => j = i
  /\ \A i \in ids : s[i].payload.chunk_index \in 0..(Len(chunks) - 1)

WritesAndReturns(p) ==
  req[p].pc = "upsert" /\ req'[p].pc = "done" /\ req'[p].outcome = "Ingested"

\* C3 (as stated): when a call that writes points completes, the points
\* stored for its file_id carry chunk_index 0..n-1, no gap, no repeat, each
\* with its chunk's text and embedding.
C3_FileHasExactlyItsChunks ==
  [][\A p \in Procs :
       WritesAndReturns(p) =>
         CarryChunks(store',
                     {i \in DOMAIN store' : store'[i].payload.file_id = req[p].file_id},
                     req[p].chunks)]_vars

\* C3 (amended): when a call that writes points completes, the points that
\* call wrote carry its file_id and user_id and chunk_index 0..n-1, no gap, no
\* repeat, n the number of chunks the splitter returned, the point of index i
\* with the i-th chunk's text and the i-th embedding.
C3_CallWritesExactlyItsChunks ==
  [][\A p \in Procs :
       WritesAndReturns(p) =>
         /\ Cardinality(req'[p].writes) = Len(req[p].chunks)
         /\ req'[p].writes \cap DOMAIN store = {}
         /\ \A i \in req'[p].writes :
              /\ store'[i].payload.file_id = req[p].file_id
              /\ store'[i].payload.user_id = req[p].user_id
         /\ CarryChunks(store', req'[p].writes, req[p].chunks)]_vars

C3_Witness ==
  \E p \in Procs :
    /\ Done(p) /\ req[p].outcome = "Ingested"
    /\ \E i, j \in req[p].writes :
         /\ store[i].payload.chunk_index = 0 /\ store[i].payload.text = "a"
         /\ store[j].payload.chunk_index = 1 /\ store[j].payload.text = "b"

\* C4: a call whose extracted text is empty or blank, or whose splitter
\* returns no chunk, ends as SkippedEmpty: it returns without raising, issues
\* no embed and no upsert and writes no point; no call reaches the embedding
\* with blank text or without chunks.
C4_EmptyDocumentIsSkipped ==
  \A p \in Procs :
    /\ req[p].pc = "split" => ~IsBlank(req[p].text_content)
    /\ req[p].pc \in {"embed", "upsert"} =>
         ~IsBlank(req[p].text_content) /\ req[p].chunks # <<>>
    /\ req[p].outcome = "SkippedEmpty" =>
         /\ req[p].result = "None" /\ req[p].response = 202
         /\ req[p].writes = {}
         /\ req[p].calls \cap {"embed", "upsert"} = {}
    /\ (Done(p) /\ "extract" \in req[p].calls /\ ~ExtractFails(req[p].doc)
               /\ IsBlank(ExtractText(req[p].doc)))
         => req[p].outcome = "SkippedEmpty" /\ "split" \notin req[p].calls
    /\ (Done(p) /\ "split" \in req[p].calls /\ "embed" \notin req[p].calls)
         => req[p].outcome = "SkippedEmpty"

C4_Witness ==
  \E p, q \in Procs :
    /\ Done(p) /\ req[p].outcome = "SkippedEmpty" /\ req[p].doc = <<" ">>
    /\ Done(q) /\ req[q].outcome = "SkippedEmpty" /\ "split" \in req[q].calls

\* C5: the step in which the embedding call fails raises to the caller and
\* leaves the store as it is; the call has issued no upsert and written no
\* point, and every change of the store is the upsert of some call.
C5_EmbeddingFailureWritesNothing ==
  [][/\ \A p \in Procs :
          (req'[p].outcome = "EmbeddingError" /\ req[p].outcome # "EmbeddingError")
            => /\ store' = store
               /\ req'[p].pc = "done" /\ req'[p].result = "raise"
               /\ req'[p].response = 500
               /\ req'[p].writes = {} /\ "upsert" \notin req'[p].calls
     /\ store' # store =>
          \E p \in Procs : /\ req[p].pc = "upsert"
                           /\ "upsert" \in req'[p].calls
                           /\ req'[p].writes = DOMAIN store' \ DOMAIN store
                           /\ \A i \in DOMAIN store : store'[i] = store[i]]_vars

C5_Witness ==
  \E p \in Procs :
    /\ Done(p) /\ req[p].outcome = "EmbeddingError"
    /\ store # <<>>

\* the document d of (f, u) is stored in full: each chunk_index once
FullyIngested(f, u, d) ==
  CarryChunks(store, KeyPoints(f, u), NominalChunks(d))

\* C6: a retry of an ingestion that failed with an embedding or store error
\* ends with the document fully ingested.
C6_RetryAfterFailureIngestsInFull ==
  \A p \in Procs :
    (Done(p) /\ req[p].prev \in {"EmbeddingError", "StoreError"}
             /\ req[p].outcome \in {"Ingested", "SkippedDuplicate"})
      => FullyIngested(req[p].file_id, req[p].user_id, req[p].doc)

\* C7: a call that stored points and a call that was skipped give the caller
\* different results or different /extract responses.
C7_SkippedDistinguishableFromIngested ==
  \A p, q \in Procs :
    (/\ Done(p) /\ req[p].outcome = "Ingested"
     /\ Done(q) /\ req[q].outcome \in {"SkippedDuplicate", "SkippedEmpty"}
     /\ req[p].file_id = req[q].file_id)
      => (req[p].result # req[q].result \/ req[p].response # req[q].response)

SemanticDone == sr.pc = "done" /\ "search" \in sr.calls /\ sr.all_hits # <<>>

\* search has returned and did not take the summarization branch
SemanticReturned == sr.pc = "done" /\ "scroll" \notin sr.calls

SummaryDone == sr.pc = "done" /\ "scroll" \in sr.calls /\ sr.page # <<>>

\* C8: the entries semantic-mode search returns are built one per kept hit,
\* and no two kept hits have the same file_id and chunk_index.
C8_NoTwoEntriesOfOneChunk ==
  SemanticReturned =>
    /\ Len(sr.result) = Len(sr.kept)
    /\ \A a, b \in 1..Len(sr.kept) :
         (/\ sr.kept[a].payload.file_id = sr.kept[b].payload.file_id
          /\ sr.kept[a].payload.chunk_index = sr.kept[b].payload.chunk_index)
           => a = b

C8_Witness ==
  /\ SemanticDone
  /\ sr.kept # <<>>
  /\ \E a, b \in 1..Len(sr.all_hits) :
       /\ sr.all_hits[a].id # sr.all_hits[b].id
       /\ sr.all_hits[a].payload.file_id = sr.all_hits[b].payload.file_id
       /\ sr.all_hits[a].payload.chunk_index = sr.all_hits[b].payload.chunk_index
       /\ sr.all_hits[a].payload.chunk_index # NoIndex
       /\ sr.all_hits[a].payload.text \in {"a", "b"}
       /\ sr.all_hits[b].payload.text \in {"a", "b"}

\* C9: every entry semantic-mode search returns has a text that is neither
\* empty nor missing, and is built from a hit that has its file_id and its
\* chunk_index.
C9_NoEmptyTextNoMissingKey ==
  SemanticReturned =>
    \A k \in 1..Len(sr.kept) :
      /\ k <= Len(sr.result)
      /\ sr.result[k].text = sr.kept[k].payload.text
      /\ sr.result[k].text # "" /\ sr.result[k].text # None
      /\ sr.kept[k].payload.file_id # None
      /\ sr.kept[k].payload.chunk_index # NoIndex

C9_Witness ==
  /\ SemanticDone
  /\ sr.kept # <<>>
  /\ \E a \in 1..Len(sr.all_hits) :
       \/ sr.all_hits[a].payload.text \in {"", None}
       \/ sr.all_hits[a].payload.chunk_index = NoIndex

\* C10: the entries summarization-mode search returns are the payloads of the
\* scroll page, each once, and their chunk_index values never decrease along
\* the list.
C10_SummarySortedByChunkIndex ==
  SummaryDone =>
    /\ Len(sr.result) = Len(sr.page)
    /\ \A k \in 1..Len(sr.page) :
         Cardinality({a \in 1..Len(sr.result) : sr.result[a] = sr.page[k].payload})
           = Cardinality({a \in 1..Len(sr.page) : sr.page[a].payload = sr.page[k].payload})
    /\ \A a, b \in 1..Len(sr.result) :
         (/\ a < b
          /\ sr.result[a].chunk_index # NoIndex
          /\ sr.result[b].chunk_index # NoIndex)
           => sr.result[a].chunk_index <= sr.result[b].chunk_index

C10_Witness ==
  /\ SummaryDone
  /\ Len(sr.page) = 2
  /\ sr.page[1].payload.chunk_index = 1
  /\ sr.page[2].payload.chunk_index = 0
  /\ sr.result[1].chunk_index = 0

\* C11: a search called with an empty file_ids list returns the empty list
\* and has issued no scroll, search, embedding or language-model call.
C11_EmptyFileIdsReturnsEmptyNoCall ==
  (sr.pc = "done" /\ sr.file_ids = <<>>)
    => /\ sr.result = <<>>
       /\ sr.calls = {}
       /\ sr.failure = "" /\ ~sr.raised

C11_Witness ==
  /\ sr.pc = "done" /\ sr.file_ids = <<>> /\ sr.query # <<>>
  /\ \E i \in DOMAIN store : store[i].payload.user_id = sr.user_id

\* C12: the step in which a store or embedding call of search fails ends the
\* search with the empty list and without raising, whatever hits were
\* accumulated before; /generate then goes on with an empty context, names
\* no file and calls the chat model.
C12_SearchFailureReturnsEmpty ==
  [][/\ (sr.failure = "" /\ sr'.failure # "")
          => /\ sr.pc \in {"scroll", "fanout"}
             /\ sr'.pc = "done" /\ ~sr'.raised
             /\ sr'.result = <<>>
     /\ (sr.pc = "done" /\ sr.failure # "" /\ sr'.pc = "answered")
          => /\ sr'.context = <<>> /\ sr'.files_used = {}
             /\ "invoke" \in sr'.calls
             /\ sr'.response \in {200, 500}]_vars

C12_Witness ==
  /\ sr.pc = "done" /\ sr.failure \in {"embed", "search"}
  /\ sr.all_hits # <<>> /\ HitUsable(sr.all_hits[1])
  /\ sr.result = <<>>

\* C13: when the language model is absent, fails, or answers with text that
\* does not decode as a JSON array, _get_expanded_queries returns the list
\* [query], and a semantic search that meets no failure has embedded and
\* searched the query alone and returns the hits of that search.
C13_NoUsableExpansionFallsBackToQuery ==
  (sr.pc \in {"fanout", "done"} /\ sr.llm \in {"absent", "failed", "not_array"})
    => /\ sr.expanded_type = "list"
       /\ sr.expanded_queries = <<sr.query>>
       /\ (sr.pc = "done" /\ sr.failure = "")
            => /\ sr.searched = <<sr.query>>
               /\ sr.kept = UniqueHits(sr.all_hits, <<>>)
               /\ sr.result = [k \in 1..Len(sr.kept) |-> Entry(sr.kept[k])]

\* C14: whatever the language model answers, _get_expanded_queries returns a
\* list of 1 to 5 pairwise distinct queries that contains the query.
C14_OneToFiveDistinctWithQuery ==
  (sr.pc \in {"fanout", "done"} /\ sr.expanded_type # "")
    => /\ sr.expanded_type = "list"
       /\ Len(sr.expanded_queries) \in 1..5
       /\ \A a, b \in 1..Len(sr.expanded_queries) :
            sr.expanded_queries[a] = sr.expanded_queries[b] => a = b
       /\ sr.query \in Range(sr.expanded_queries)

\* the hit is a stored point of the caller, of one of the requested files
Owned(hit) ==
  /\ hit.id \in DOMAIN store
  /\ store[hit.id].payload = hit.payload
  /\ hit.payload.user_id = sr.user_id
  /\ hit.payload.file_id \in Range(sr.file_ids)

\* C15: in both modes every entry search returns is built from a stored
\* point whose user_id is the user_id argument and whose file_id is in the
\* file_ids argument.
C15_OnlyCallersPointsOfRequestedFiles ==
  sr.pc = "done"
    => /\ \A k \in 1..Len(sr.all_hits) : Owned(sr.all_hits[k])
       /\ \A k \in 1..Len(sr.kept) : Owned(sr.kept[k])
       /\ \A k \in 1..Len(sr.page) : Owned(sr.page[k])
       /\ "scroll" \notin sr.calls
            => /\ Len(sr.result) = Len(sr.kept)
               /\ \A k \in 1..Len(sr.kept) : sr.result[k] = Entry(sr.kept[k])
       /\ "scroll" \in sr.calls
            => \A k \in 1..Len(sr.result) :
                 \E a \in 1..Len(sr.page) : sr.page[a].payload = sr.result[k]

C15_Witness ==
  /\ sr.pc = "done" /\ sr.result # <<>>
  /\ \E i \in DOMAIN store :
       /\ store[i].payload.user_id # sr.user_id
       /\ store[i].payload.file_id \in Range(sr.file_ids)
       /\ Truthy(store[i].payload.text)

\* C16: whenever _get_or_create_collection returns without error the
\* collection exists with size 1024 and keyword indexes on user_id and
\* file_id; and a step of a call that began on such a collection, taken on
\* such a collection, changes neither the collection nor its points.
C16_EnsureIsIdempotent ==
  [][\A p \in Procs :
       /\ (startup[p].pc # "ready" /\ startup'[p].pc = "ready")
            => coll' = ReadyCollection
       /\ (startup[p].again /\ coll = ReadyCollection /\ startup'[p] # startup[p])
            => coll' = coll /\ store' = store]_vars

\* C17: a call that finds a collection of another vector size deletes it and
\* re-enters once; no call re-enters more than once; and a call that
\* re-entered returns on a collection of size 1024 with both indexes.
C17_MismatchDeletesRetriesOnceAndRepairs ==
  [][\A p \in Procs :
       /\ (/\ startup[p].pc = "verify" /\ coll.exists
           /\ coll.size # EMBEDDING_DIM
           /\ startup'[p] # startup[p] /\ startup'[p].pc # "failed")
            => startup'[p].pc = "delete"
       /\ (startup[p].pc = "delete" /\ startup'[p].pc = "get")
            => ~coll'.exists /\ startup'[p].depth = 1
       /\ startup'[p].depth <= 1
       /\ (/\ startup[p].pc # "ready" /\ startup'[p].pc = "ready"
           /\ startup[p].depth = 1)
            => coll' = ReadyCollection]_vars

\* C18: when two handlers have both ingested the same document under the
\* same (file_id, user_id), which takes both passing the duplicate check
\* before either upserts, each call's points are stored under ids of their
\* own and each chunk_index of the document is stored once per call, twice
\* in all.
C18_ConcurrentIngestionsStoreEachChunkTwice ==
  \A p, q \in Procs :
    (/\ p # q /\ Done(p) /\ Done(q)
     /\ req[p].outcome = "Ingested" /\ req[q].outcome = "Ingested"
     /\ req[p].writes # {} /\ req[q].writes # {}
     /\ req[p].file_id = req[q].file_id /\ req[p].user_id = req[q].user_id
     /\ req[p].doc = req[q].doc)
      => /\ req[p].writes \cap req[q].writes = {}
         /\ CarryChunks(store, req[p].writes, NominalChunks(req[p].doc))
         /\ CarryChunks(store, req[q].writes, NominalChunks(req[q].doc))
         /\ req[p].writes \cup req[q].writes
              \subseteq KeyPoints(req[p].file_id, req[p].user_id)

C18_Witness ==
  \E p, q \in Procs :
    /\ p # q /\ Done(p) /\ Done(q)
    /\ req[p].outcome = "Ingested" /\ req[q].outcome = "Ingested"
    /\ req[p].file_id = req[q].file_id /\ req[p].user_id = req[q].user_id
    /\ \A k \in {0, 1} :
         Cardinality({i \in KeyPoints(req[p].file_id, req[p].user_id) :
                        store[i].payload.chunk_index = k}) = 2

\* C19: every point that enters the store is written by the upsert of a
\* process whose _get_or_create_collection returned without error; a
\* process becomes ready only by that return; a process whose startup
\* failed has no vector_generator, answers /extract with 503 and never
\* calls process_document.
C19_NoWriteWithoutEnsure ==
  [][/\ \A i \in DOMAIN store' :
          (i \notin DOMAIN store \/ store'[i] # store[i])
            => \E p \in Procs :
                 /\ req[p].pc = "upsert" /\ i \in req'[p].writes
                 /\ startup[p].pc = "ready"
                 /\ startup[p].vector_generator = "VectorGenerator"
     /\ \A p \in Procs :
          /\ (startup[p].pc # "ready" /\ startup'[p].pc = "ready")
               => startup[p].pc = "index_file" /\ coll'.exists
          /\ startup'[p].pc = "failed" => startup'[p].vector_generator = "None"
          /\ startup'[p].vector_generator = "None"
               => /\ req'[p].pc \in {"idle", "done"}
                  /\ req'[p].calls = {} /\ req'[p].writes = {}
                  /\ req'[p].response \in {0, 503}
          /\ (req'[p] # req[p] /\ startup[p].pc = "failed")
               => req'[p].response = 503]_vars

C19_Witness ==
  \E p, q \in Procs :
    /\ startup[p].pc = "failed" /\ startup[p].error = "store"
    /\ req[p].response = 503
    /\ startup[q].pc = "ready" /\ req[q].outcome = "Ingested"
    /\ req[q].writes # {} /\ req[q].writes \subseteq DOMAIN store

\* the positions of all_hits at which a usable hit's key occurs first
FirstSeen(hits) ==
  {a \in 1..Len(hits) :
     /\ HitUsable(hits[a])
     /\ \A b \in 1..(a - 1) :
          HitUsable(hits[b]) => ChunkKey(hits[b]) # ChunkKey(hits[a])}

\* C20: each turn of a semantic search that meets no failure searches the
\* next query of the expansion, in its order, and appends the store's page
\* as it came; the entries returned are those of the first occurrences of
\* each (file_id, chunk_index), in the order of these occurrences.
C20_FirstSeenOrder ==
  [][(sr.pc = "fanout" /\ sr'.failure = "")
       => /\ sr'.searched = Append(sr.searched, sr.expanded_queries[sr.qi])
          /\ Len(sr'.all_hits) >= Len(sr.all_hits)
          /\ SubSeq(sr'.all_hits, 1, Len(sr.all_hits)) = sr.all_hits
          /\ sr'.pc = "done"
               => LET first == FirstSeen(sr'.all_hits) IN
                  /\ sr'.searched = sr.expanded_queries
                  /\ Len(sr'.kept) = Cardinality(first)
                  /\ Len(sr'.result) = Len(sr'.kept)
                  /\ \A a \in first :
                       LET k == Cardinality({b \in first : b < a}) + 1 IN
                       /\ sr'.kept[k] = sr'.all_hits[a]
                       /\ sr'.result[k] = Entry(sr'.all_hits[a])]_vars

C20_Witness ==
  /\ SemanticDone /\ sr.failure = ""
  /\ Len(sr.kept) = 2 /\ Len(sr.all_hits) > 2
  /\ ChunkKey(sr.all_hits[Len(sr.all_hits)]) = ChunkKey(sr.kept[1])
  /\ sr.kept[1].payload.text # sr.kept[2].payload.text

\* C21: a summarization-mode search that meets no failure returns at most
\* 30 entries, each the whole payload of a stored point that matches user_id
\* and file_ids, no point twice; when at most 30 points match, every one of
\* them is returned.
C21_SummaryReturnsAllUpToThirty ==
  (sr.pc = "done" /\ "scroll" \in sr.calls /\ sr.failure = "")
    => LET match == FilterMatch(store, sr.user_id, sr.file_ids) IN
       /\ Len(sr.result) <= 30
       /\ \A k \in 1..Len(sr.result) :
            \E i \in match :
              /\ sr.result[k] = store[i].payload
              /\ \A j \in 1..Len(sr.result) :
                   sr.result[j] = store[i].payload => j = k
       /\ Cardinality(match) <= 30
            => \A i \in match :
                 \E k \in 1..Len(sr.result) : sr.result[k] = store[i].payload
       /\ Cardinality(match) > 30 => Len(sr.result) = 30

C21_Witness ==
  /\ sr.pc = "done" /\ "scroll" \in sr.calls /\ sr.failure = ""
  /\ Len(sr.result) = 30
  /\ Cardinality(FilterMatch(store, sr.user_id, sr.file_ids)) = 31
  /\ sr.result[1].chunk_index < sr.page[1].payload.chunk_index

\* C22: no step of an ingestion, whether its call is skipped, fails or
\* succeeds, removes or changes a stored point; the ids a call writes under
\* are ids no stored point had, and the store after the upsert is the store
\* before it plus the points written.
C22_IngestionKeepsStoredPoints ==
  [][/\ \A i \in DOMAIN store :
          i \in DOMAIN store' /\ store'[i] = store[i]
     /\ \A p \in Procs :
          (req[p].pc = "upsert" /\ req'[p].pc = "done")
            => /\ req'[p].writes \cap DOMAIN store = {}
               /\ DOMAIN store' = DOMAIN store \cup req'[p].writes]_vars

C22_Witness ==
  \E p, q \in Procs :
    /\ Done(p) /\ req[p].outcome = "Ingested" /\ req[p].writes # {}
    /\ Done(q) /\ req[q].outcome = "StoreError" /\ req[q].writes # {}
    /\ req[p].writes \cup req[q].writes \subseteq DOMAIN store
    /\ req[p].writes \cap req[q].writes = {}

\* C23: while processes start and ingest side by side, no step taken on a
\* collection of size 1024 removes or changes a point stored in it.
C23_ReadyCollectionKeepsItsPoints ==
  [][(coll.exists /\ coll.size = EMBEDDING_DIM)
       => \A i \in DOMAIN store :
            i \in DOMAIN store' /\ store'[i] = store[i]]_vars

\* C24: the step in which delete_by_file_ids returns without error leaves no
\* point whose file_id is in the list, for any user_id, leaves every other
\* point in place and unchanged and adds none; with an empty list it issues
\* no store call and leaves the store as it was. An ingestion sent next for
\* a file of the list, with no other handler at work, passes the duplicate
\* check, and when it ends as ingested the store then holds for its
\* (file_id, user_id) exactly the chunks of its document, once each.
C24_DeleteRemovesListedFilesOnly ==
  [][/\ (dl.pc = "delete_by_file_ids" /\ dl'.pc = "done" /\ dl'.result = "None")
          => IF dl.file_ids = <<>>
               THEN dl'.calls = {} /\ store' = store
               ELSE /\ dl'.calls = {"delete"}
                    /\ DOMAIN store' \subseteq DOMAIN store
                    /\ \A i \in DOMAIN store' :
                         store'[i].payload.file_id \notin Range(dl.file_ids)
                    /\ \A i \in DOMAIN store :
                         store[i].payload.file_id \notin Range(dl.file_ids)
                           => i \in DOMAIN store' /\ store'[i] = store[i]
     /\ \A p \in Procs :
          (/\ req[p].pc # "done" /\ req'[p].pc = "done"
           /\ req'[p].prev = "Deleted"
           /\ \A q \in Procs \ {p} : req'[q].pc = "idle")
            => /\ req'[p].outcome # "SkippedDuplicate"
               /\ "scroll" \in req'[p].calls
               /\ req'[p].outcome = "Ingested"
                    => /\ {i \in DOMAIN store' :
                             /\ store'[i].payload.file_id = req'[p].file_id
                             /\ store'[i].payload.user_id = req'[p].user_id}
                          = req'[p].writes
                       /\ CarryChunks(store', req'[p].writes,
                                      NominalChunks(req'[p].doc))]_vars

C24_Witness ==
  \E p \in Procs :
    /\ dl.pc = "done" /\ dl.result = "None" /\ dl.response = 202
    /\ dl.file_ids = <<"f1">>
    /\ dl.removed = {<<"f1", "u1">>, <<"f1", "u2">>}
    /\ Done(p) /\ req[p].prev = "Deleted" /\ req[p].outcome = "Ingested"
    /\ req[p].file_id = "f1" /\ req[p].user_id = "u1"
    /\ Cardinality(req[p].writes) = 2
    /\ KeyPoints("f1", "u1") = req[p].writes
    /\ KeyPoints("f1", "u2") = {}
    /\ KeyPoints("f2", "u1") # {}
    /\ \A q \in Procs \ {p} : req[q].pc = "idle"

====
